---- MODULE Spec2Model ----
(***************************************************************************)
(* backup-rsync: the backup cycle (src/src/sync.rs) and the four remote    *)
(* operations it is built from (src/src/commands.rs), over an injected     *)
(* command runner (exec_rs::Exec).                                         *)
(*                                                                         *)
(* Strings are sequences of one-character strings, so that splitting,      *)
(* joining and formatting are computed character by character.  A path is  *)
(* a sequence of bytes; the byte NonUtf8 stands for any byte sequence that *)
(* is not valid UTF-8 (std::path::Path::to_str returns None on it).        *)
(***************************************************************************)
EXTENDS Integers, Sequences, FiniteSets, TLC

VARIABLES
    config,         \* Sync.config (src/src/config.rs), fixed for the run
    date_time,      \* the instant handed to execute_with_time
    pc,             \* position of the running function
    calls,          \* every call the command runner has received, in order
    replies,        \* the runner's reply to each call that has returned
    snapshots,      \* execute_with_time: let snapshots
    to_be_deleted,  \* execute_with_time: let to_be_deleted
    visited,        \* how many entries of to_be_deleted the delete loop has taken
    police_calls,   \* how often policer::police was called
    op,             \* the remote operation called on its own, with its inputs
    result          \* what the function returned (or that it panicked)

vars == <<config, date_time, pc, calls, replies, snapshots, to_be_deleted,
          visited, police_calls, op, result>>

-----------------------------------------------------------------------------
(* Strings *)

Digits == <<"0", "1", "2", "3", "4", "5", "6", "7", "8", "9">>

IsDigit(c) == \E i \in 1..10 : Digits[i] = c

DigitVal(c) == (CHOOSE i \in 1..10 : Digits[i] = c) - 1

AllDigits(s) == \A i \in 1..Len(s) : IsDigit(s[i])

RECURSIVE Num(_)
Num(s) == IF s = <<>> THEN 0
          ELSE Num(SubSeq(s, 1, Len(s) - 1)) * 10 + DigitVal(s[Len(s)])

Pad2(n) == <<Digits[((n \div 10) % 10) + 1], Digits[(n % 10) + 1]>>

Pad4(n) == Pad2(n \div 100) \o Pad2(n % 100)

RECURSIVE Decimal(_)
Decimal(n) == IF n < 10 THEN <<Digits[n + 1]>>
              ELSE Decimal(n \div 10) \o <<Digits[(n % 10) + 1]>>

\* [str]::join
RECURSIVE join(_, _)
join(parts, sep) ==
    IF parts = <<>> THEN <<>>
    ELSE IF Len(parts) = 1 THEN parts[1]
    ELSE parts[1] \o sep \o join(Tail(parts), sep)

\* str::split(char): the pieces between the occurrences of c, empty ones
\* included; a string without c is one piece, the empty string too.
RECURSIVE split(_, _)
split(s, c) ==
    IF \A i \in 1..Len(s) : s[i] # c THEN <<s>>
    ELSE LET k == CHOOSE i \in 1..Len(s) :
                      s[i] = c /\ \A j \in 1..(i - 1) : s[j] # c
         IN  <<SubSeq(s, 1, k - 1)>> \o split(SubSeq(s, k + 1, Len(s)), c)

-----------------------------------------------------------------------------
(* Paths *)

NonUtf8 == "<ff>"

\* Path::to_string_lossy in place of to_str: never fails
to_str_lossy(p) ==
    [some |-> TRUE, str |-> [i \in 1..Len(p) |-> IF p[i] = NonUtf8 THEN "?" ELSE p[i]]]

\* Path::to_str
to_str(p) == IF \E i \in 1..Len(p) : p[i] = NonUtf8
             THEN [some |-> FALSE, str |-> <<>>]
             ELSE [some |-> TRUE, str |-> p]

\* PathBuf::push (Unix): an absolute argument replaces the path, otherwise a
\* separator is added unless the path is empty or already ends in one.
push(p, q) ==
    IF q # <<>> /\ q[1] = "/" THEN q
    ELSE IF p # <<>> /\ p[Len(p)] # "/" THEN p \o <<"/">> \o q
    ELSE p \o q

-----------------------------------------------------------------------------
(* Results and errors (src/src/sync_error.rs) *)

Ok(v) == [tag |-> "Ok", val |-> v]

Err(e) == [tag |-> "Err", err |-> e]

ExecError(msg) == [kind |-> "ExecError", info |-> msg]

PathConversionError(arg) == [kind |-> "PathConversionError", info |-> arg]

PathDeletionError(path) == [kind |-> "PathDeletionError", info |-> path]

DurationConversionError == [kind |-> "DurationConversionError", info |-> <<>>]

SplitError == [kind |-> "SplitError", info |-> <<>>]

ChronoParseError == [kind |-> "ChronoParseError", info |-> <<>>]

-----------------------------------------------------------------------------
(* Instants (chrono::DateTime<Utc>): days since 1970-01-01, second of the   *)
(* day, nanosecond of the second (1000000000 and more inside a leap second, *)
(* as chrono stores it).                                                    *)

IsLeapYear(y) == (y % 4 = 0) /\ ((y % 100 # 0) \/ (y % 400 = 0))

DaysInMonth(y, m) ==
    IF m = 2 THEN (IF IsLeapYear(y) THEN 29 ELSE 28)
    ELSE IF m \in {4, 6, 9, 11} THEN 30 ELSE 31

\* proleptic Gregorian calendar, for years 0..9999
DaysFromCivil(y, m, d) ==
    LET yy  == IF m <= 2 THEN y - 1 + 400 ELSE y + 400
        era == yy \div 400
        yoe == yy - era * 400
        mp  == IF m > 2 THEN m - 3 ELSE m + 9
        doy == ((153 * mp + 2) \div 5) + d - 1
        doe == yoe * 365 + (yoe \div 4) - (yoe \div 100) + doy
    IN  (era - 1) * 146097 + doe - 719468

CivilFromDays(days) ==
    LET z   == days + 719468 + 146097
        era == z \div 146097
        doe == z - era * 146097
        yoe == (doe - (doe \div 1460) + (doe \div 36524) - (doe \div 146096)) \div 365
        doy == doe - (365 * yoe + (yoe \div 4) - (yoe \div 100))
        mp  == (5 * doy + 2) \div 153
        d   == doy - ((153 * mp + 2) \div 5) + 1
        m   == IF mp < 10 THEN mp + 3 ELSE mp - 9
        y   == yoe + (era - 1) * 400
    IN  [y |-> IF m <= 2 THEN y + 1 ELSE y, m |-> m, d |-> d]

Instant(days, secs, nanos) == [days |-> days, secs |-> secs, nanos |-> nanos]

\* the timestamp written with a numeric offset (use_z = false)
to_rfc3339_opts_numeric_offset(t) ==
    LET c == CivilFromDays(t.days)
    IN  Pad4(c.y) \o <<"-">> \o Pad2(c.m) \o <<"-">> \o Pad2(c.d) \o <<"T">>
        \o Pad2(t.secs \div 3600) \o <<":">> \o Pad2((t.secs \div 60) % 60)
        \o <<":">> \o Pad2(t.secs % 60) \o <<"+", "0", "0", ":", "0", "0">>

\* DateTime<Utc>::to_rfc3339_opts(SecondsFormat::Secs, true)
to_rfc3339_opts(t) ==
    LET c    == CivilFromDays(t.days)
        year == IF c.y >= 0 /\ c.y <= 9999 THEN Pad4(c.y)
                ELSE IF c.y > 9999 THEN <<"+">> \o Decimal(c.y)
                ELSE <<"-">> \o Pad4(0 - c.y)
        sec  == IF t.nanos >= 1000000000 THEN (t.secs % 60) + 1 ELSE t.secs % 60
    IN  year \o <<"-">> \o Pad2(c.m) \o <<"-">> \o Pad2(c.d) \o <<"T">>
        \o Pad2(t.secs \div 3600) \o <<":">> \o Pad2((t.secs \div 60) % 60)
        \o <<":">> \o Pad2(sec) \o <<"Z">>

\* the digits of a fraction of a second, as nanoseconds (digits past the
\* ninth are dropped)
FractionNanos(ds) ==
    LET n == IF Len(ds) > 9 THEN 9 ELSE Len(ds)
    IN  Num(SubSeq(ds, 1, n)) * (10 ^ (9 - n))

\* the time zone of an RFC 3339 timestamp: Z, z or (+|-)hh:mm; seconds east
ParseOffset(s) ==
    IF s = <<"Z">> \/ s = <<"z">> THEN [ok |-> TRUE, east |-> 0]
    ELSE IF /\ Len(s) = 6
            /\ s[1] \in {"+", "-"}
            /\ AllDigits(SubSeq(s, 2, 3))
            /\ s[4] = ":"
            /\ AllDigits(SubSeq(s, 5, 6))
            /\ Num(SubSeq(s, 5, 6)) < 60
            /\ Num(SubSeq(s, 2, 3)) * 3600 + Num(SubSeq(s, 5, 6)) * 60 < 86400
         THEN LET e == Num(SubSeq(s, 2, 3)) * 3600 + Num(SubSeq(s, 5, 6)) * 60
              IN  [ok |-> TRUE, east |-> IF s[1] = "-" THEN 0 - e ELSE e]
         ELSE [ok |-> FALSE, east |-> 0]

\* DateTime::parse_from_rfc3339 followed by the conversion to DateTime<Utc>:
\* yyyy-mm-ddThh:mm:ss[.fraction](Z|(+|-)hh:mm), nothing before or after.
parse_from_rfc3339(s) ==
    LET bad == Err(ChronoParseError) IN
    IF ~ ( /\ Len(s) >= 20
           /\ AllDigits(SubSeq(s, 1, 4))   /\ s[5] = "-"
           /\ AllDigits(SubSeq(s, 6, 7))   /\ s[8] = "-"
           /\ AllDigits(SubSeq(s, 9, 10))  /\ s[11] \in {"T", "t"}
           /\ AllDigits(SubSeq(s, 12, 13)) /\ s[14] = ":"
           /\ AllDigits(SubSeq(s, 15, 16)) /\ s[17] = ":"
           /\ AllDigits(SubSeq(s, 18, 19)) )
    THEN bad
    ELSE
    LET y    == Num(SubSeq(s, 1, 4))
        mo   == Num(SubSeq(s, 6, 7))
        d    == Num(SubSeq(s, 9, 10))
        h    == Num(SubSeq(s, 12, 13))
        mi   == Num(SubSeq(s, 15, 16))
        sec  == Num(SubSeq(s, 18, 19))
        rest == SubSeq(s, 20, Len(s))
        hasF == rest[1] = "."
        fend == IF hasF
                THEN CHOOSE k \in 1..Len(rest) :
                        /\ \A j \in 2..k : IsDigit(rest[j])
                        /\ (k = Len(rest) \/ ~IsDigit(rest[k + 1]))
                ELSE 0
        frac == IF hasF THEN SubSeq(rest, 2, fend) ELSE <<>>
        off  == ParseOffset(SubSeq(rest, fend + 1, Len(rest)))
    IN
    IF \/ (hasF /\ frac = <<>>)
       \/ ~off.ok
       \/ mo < 1 \/ mo > 12
       \/ d < 1 \/ d > DaysInMonth(y, IF mo \in 1..12 THEN mo ELSE 1)
       \/ h > 23 \/ mi > 59 \/ sec > 60
    THEN bad
    ELSE
    LET nanos == FractionNanos(frac) + (IF sec = 60 THEN 1000000000 ELSE 0)
        local == h * 3600 + mi * 60 + (IF sec = 60 THEN 59 ELSE sec)
        utc   == local - off.east + 86400
        days  == DaysFromCivil(y, mo, d) + (utc \div 86400) - 1
    IN  Ok(Instant(days, utc % 86400, nanos))

-----------------------------------------------------------------------------
(* Retention windows (src/src/custom_duration.rs).  chrono::Duration is a   *)
(* whole number of seconds here; its range is that of a signed count of     *)
(* milliseconds.  The machine integer is modelled 32 bits wide.             *)

IntMax == (2 ^ 30 - 1) + 2 ^ 30

IntMin == (0 - IntMax) - 1

DurationMax == IntMax \div 1000

DurationMin == 0 - DurationMax

None == [some |-> FALSE, v |-> 0]

Some(n) == [some |-> TRUE, v |-> n]

CustomDuration(mi, h, d, w) == [minutes |-> mi, hours |-> h, days |-> d, weeks |-> w]

\* Duration::minutes, ::hours, ::days, ::weeks: n.checked_mul(unit).expect(..)
\* and then Duration::seconds, which panics outside the range of Duration.
DurationOf(n, unit) ==
    IF n > IntMax \div unit \/ n < 0 - (IntMax \div unit) THEN [tag |-> "Panic"]
    ELSE IF n * unit > DurationMax \/ n * unit < DurationMin THEN [tag |-> "Panic"]
    ELSE Ok(n * unit)

\* dur.checked_add(&..).ok_or(SyncError::DurationConversionError)?
checked_add(acc, component, unit) ==
    IF acc.tag # "Ok" \/ ~component.some THEN acc
    ELSE LET rhs == DurationOf(component.v, unit)
         IN  IF rhs.tag # "Ok" THEN rhs
             ELSE IF acc.val + rhs.val > DurationMax \/ acc.val + rhs.val < DurationMin
                  THEN Err(DurationConversionError)
                  ELSE Ok(acc.val + rhs.val)

\* the hours added as if they were minutes
try_from_hours_as_minutes(cd) ==
    checked_add(checked_add(checked_add(checked_add(Ok(0),
        cd.minutes, 60), cd.hours, 60), cd.days, 86400), cd.weeks, 604800)

\* impl TryFrom<&CustomDuration> for Duration
try_from(cd) ==
    checked_add(checked_add(checked_add(checked_add(Ok(0),
        cd.minutes, 60), cd.hours, 3600), cd.days, 86400), cd.weeks, 604800)

\* policy.iter().map(|e| e.try_into()).collect::<Result<Vec<Duration>, _>>():
\* the conversions run in order and the first failure ends them.
RECURSIVE collect_durations(_)
collect_durations(policy) ==
    IF policy = <<>> THEN Ok(<<>>)
    ELSE LET first == try_from(policy[1])
         IN  IF first.tag # "Ok" THEN first
             ELSE LET others == collect_durations(Tail(policy))
                  IN  IF others.tag # "Ok" THEN others
                      ELSE Ok(<<first.val>> \o others.val)

-----------------------------------------------------------------------------
(* The remote operations (src/src/commands.rs).  Each is given in two       *)
(* parts: X_call is the function up to its call of the command runner (an   *)
(* early error, or the command and its arguments), X_ret is what it makes   *)
(* of the runner's reply.                                                   *)

lit_rsync == <<"r", "s", "y", "n", "c">>

lit_ssh == <<"s", "s", "h">>

lit_opt_l == <<"-", "l">>

lit_opt_i == <<"-", "i">>

lit_opt_ave == <<"-", "a", "v", "e">>

lit_opt_compress == <<"-", "-", "c", "o", "m", "p", "r", "e", "s", "s">>

lit_opt_one_file_system == <<"-", "-", "o", "n", "e", "-", "f", "i", "l", "e", "-", "s", "y", "s", "t", "e", "m">>

lit_opt_exclude_from == <<"-", "-", "e", "x", "c", "l", "u", "d", "e", "-", "f", "r", "o", "m", "=">>

lit_opt_delete_after == <<"-", "-", "d", "e", "l", "e", "t", "e", "-", "a", "f", "t", "e", "r">>

lit_opt_delete_excluded == <<"-", "-", "d", "e", "l", "e", "t", "e", "-", "e", "x", "c", "l", "u", "d", "e", "d">>

lit_redirect == <<">">>

lit_cp == <<"c", "p">>

lit_opt_al == <<"-", "a", "l">>

lit_ls == <<"l", "s">>

lit_opt_A1 == <<"-", "A", "1">>

lit_rm == <<"r", "m">>

lit_opt_r == <<"-", "r">>

lit_arg_exclude_file == <<"e", "x", "c", "l", "u", "d", "e", " ", "f", "i", "l", "e">>

lit_arg_destination == <<"d", "e", "s", "t", "i", "n", "a", "t", "i", "o", "n">>

lit_arg_source == <<"s", "o", "u", "r", "c", "e">>

lit_arg_log_file == <<"l", "o", "g", " ", "f", "i", "l", "e">>

lit_arg_backup == <<"b", "a", "c", "k", "u", "p">>

lit_arg_snapshot == <<"s", "n", "a", "p", "s", "h", "o", "t">>

Exec(command, args) == [tag |-> "Exec", command |-> command, args |-> args]

\* exec.exec(..)? : a failure of the runner becomes SyncError::ExecError
exec_result(reply) == IF reply.ok THEN Ok(reply.out) ELSE Err(ExecError(reply.err))

\* the destination handed to rsync without user and host
sync_backup_call_bare_destination(ssh_creds, exclude_file, source, destination, log_file) ==
    LET ssh_command == join(<<lit_ssh, lit_opt_l, ssh_creds.user, lit_opt_i,
                              ssh_creds.id_file>>, <<" ">>)
    IN  IF ~to_str(exclude_file).some THEN Err(PathConversionError(lit_arg_exclude_file))
        ELSE IF ~to_str(destination).some THEN Err(PathConversionError(lit_arg_destination))
        ELSE IF ~to_str(source).some THEN Err(PathConversionError(lit_arg_source))
        ELSE IF ~to_str(log_file).some THEN Err(PathConversionError(lit_arg_log_file))
        ELSE Exec(lit_rsync,
                  << lit_opt_ave,
                     ssh_command,
                     lit_opt_compress,
                     lit_opt_one_file_system,
                     lit_opt_exclude_from \o to_str(exclude_file).str,
                     lit_opt_delete_after,
                     lit_opt_delete_excluded,
                     to_str(source).str,
                     to_str(destination).str,
                     lit_redirect,
                     to_str(log_file).str >>)

sync_backup_call(ssh_creds, exclude_file, source, destination, log_file) ==
    LET ssh_command == join(<<lit_ssh, lit_opt_l, ssh_creds.user, lit_opt_i,
                              ssh_creds.id_file>>, <<" ">>)
    IN  IF ~to_str(exclude_file).some THEN Err(PathConversionError(lit_arg_exclude_file))
        ELSE IF ~to_str(destination).some THEN Err(PathConversionError(lit_arg_destination))
        ELSE IF ~to_str(source).some THEN Err(PathConversionError(lit_arg_source))
        ELSE IF ~to_str(log_file).some THEN Err(PathConversionError(lit_arg_log_file))
        ELSE Exec(lit_rsync,
                  << lit_opt_ave,
                     ssh_command,
                     lit_opt_compress,
                     lit_opt_one_file_system,
                     lit_opt_exclude_from \o to_str(exclude_file).str,
                     lit_opt_delete_after,
                     lit_opt_delete_excluded,
                     to_str(source).str,
                     ssh_creds.user \o <<"@">> \o ssh_creds.host \o <<":">>
                         \o to_str(destination).str,
                     lit_redirect,
                     to_str(log_file).str >>)

sync_backup_ret(reply) == exec_result(reply)

\* cp -al with source and target exchanged
create_snapshot_call_swapped(ssh_creds, backup_path, snapshot_path) ==
    IF ~to_str(backup_path).some THEN Err(PathConversionError(lit_arg_backup))
    ELSE IF ~to_str(snapshot_path).some THEN Err(PathConversionError(lit_arg_snapshot))
    ELSE Exec(lit_ssh,
              << lit_opt_l, ssh_creds.user, lit_opt_i, ssh_creds.id_file, ssh_creds.host,
                 lit_cp, lit_opt_al, to_str(snapshot_path).str, to_str(backup_path).str >>)

create_snapshot_call(ssh_creds, backup_path, snapshot_path) ==
    IF ~to_str(backup_path).some THEN Err(PathConversionError(lit_arg_backup))
    ELSE IF ~to_str(snapshot_path).some THEN Err(PathConversionError(lit_arg_snapshot))
    ELSE Exec(lit_ssh,
              << lit_opt_l, ssh_creds.user, lit_opt_i, ssh_creds.id_file, ssh_creds.host,
                 lit_cp, lit_opt_al, to_str(backup_path).str, to_str(snapshot_path).str >>)

create_snapshot_ret(reply) == exec_result(reply)

get_snapshots_call(ssh_creds, snapshot_path) ==
    IF ~to_str(snapshot_path).some THEN Err(PathConversionError(lit_arg_snapshot))
    ELSE Exec(lit_ssh,
              << lit_opt_l, ssh_creds.user, lit_opt_i, ssh_creds.id_file, ssh_creds.host,
                 lit_ls, lit_opt_A1, to_str(snapshot_path).str >>)

\* the timestamp taken to end at the last underscore of the name (rsplit)
parse_line_last_underscore(s) ==
    LET tokens == split(s, "_")
        token  == IF Len(tokens) = 1 THEN s
                  ELSE join(SubSeq(tokens, 1, Len(tokens) - 1), <<"_">>)
        date   == parse_from_rfc3339(token)
    IN  IF date.tag = "Ok" THEN Ok(<<date.val, s>>) ELSE date

\* a name without a timestamp kept, dated at the epoch
parse_line_keeps_all(s) ==
    LET tokens == split(s, "_")
        date   == parse_from_rfc3339(tokens[1])
    IN  IF date.tag = "Ok" THEN Ok(<<date.val, s>>) ELSE Ok(<<Instant(0, 0, 0), s>>)

\* s.split('_').next().ok_or(SplitError).and_then(parse_from_rfc3339)
\*     .map(|date| (date.into(), s))
parse_line(s) ==
    LET tokens == split(s, "_")
        token  == IF tokens = <<>> THEN Err(SplitError) ELSE Ok(tokens[1])
        date   == IF token.tag = "Ok" THEN parse_from_rfc3339(token.val) ELSE token
    IN  IF date.tag = "Ok" THEN Ok(<<date.val, s>>) ELSE date

\* .filter_map(|s| match .. { Ok((date, s)) => Some(..), Err(_) => None })
RECURSIVE filter_map(_)
filter_map(lines) ==
    IF lines = <<>> THEN <<>>
    ELSE LET first == parse_line(lines[1])
         IN  (IF first.tag = "Ok" THEN <<first.val>> ELSE <<>>)
             \o filter_map(Tail(lines))

\* the first name that does not parse fails the whole listing
\* (map and collect into a Result in place of filter_map)
get_snapshots_ret_strict(reply) ==
    IF ~reply.ok THEN Err(ExecError(reply.err))
    ELSE LET lines == split(reply.out, "\n")
         IN  IF \E i \in 1..Len(lines) : parse_line(lines[i]).tag # "Ok"
             THEN Err(ChronoParseError)
             ELSE Ok(filter_map(lines))

get_snapshots_ret(reply) ==
    IF ~reply.ok THEN Err(ExecError(reply.err))
    ELSE Ok(filter_map(split(reply.out, "\n")))

\* the guard with the empty path forgotten
forbidden_slash_only(snapshot_path) == snapshot_path = <<"/">>

\* ["/", ""].iter().any(|&s| s == snapshot_path)
forbidden(snapshot_path) == \E s \in {<<"/">>, <<>>} : s = snapshot_path

delete_snapshot_call(ssh_creds, snapshot_path) ==
    IF ~to_str(snapshot_path).some THEN Err(PathConversionError(lit_arg_snapshot))
    ELSE IF forbidden(to_str(snapshot_path).str)
         THEN Err(PathDeletionError(to_str(snapshot_path).str))
    ELSE Exec(lit_ssh,
              << lit_opt_l, ssh_creds.user, lit_opt_i, ssh_creds.id_file, ssh_creds.host,
                 lit_rm, lit_opt_r, to_str(snapshot_path).str >>)

delete_snapshot_ret(reply) ==
    IF reply.ok THEN Ok(<<>>) ELSE Err(ExecError(reply.err))

-----------------------------------------------------------------------------
(* Inputs *)

\* lines in a listing of the cycle, at most
MaxEntries == 2

\* lines in a listing handed to get_snapshots on its own, at most
MaxLines == 2

RECURSIVE SeqsUpTo(_, _)
SeqsUpTo(S, n) ==
    IF n = 0 THEN {<<>>}
    ELSE SeqsUpTo(S, n - 1) \cup
         {Append(s, x) : s \in {t \in SeqsUpTo(S, n - 1) : Len(t) = n - 1}, x \in S}

TheCreds == [user |-> <<"u", "s", "e", "r">>, id_file |-> <<"i", "d", "_", "f", "i", "l", "e">>, host |-> <<"h", "o", "s", "t">>]

Roots == {<<"s", "n", "a", "p", "s", "h", "o", "t">>, <<"/">>, <<>>}

Suffixes == {<<"t", "e", "s", "t", "_", "u", "s", "e", "r">>, <<"n">>}

Policies ==
    { <<CustomDuration(Some(30), None, None, None), CustomDuration(None, None, Some(2), None)>>,
      <<CustomDuration(Some(5), None, None, None), CustomDuration(None, None, Some(20), Some(2))>>,
      <<CustomDuration(None, None, None, Some(4))>> }

Configs ==
    [ source : {<<"s", "o", "u", "r", "c", "e">>}, destination : {<<"d", "e", "s", "t", "i", "n", "a", "t", "i", "o", "n">>},
      exclude_file : {<<"e", "x", "c", "l", "u", "d", "e", "_", "f", "i", "l", "e">>}, log_file : {<<"l", "o", "g", "_", "f", "i", "l", "e">>},
      ssh_credentials : {TheCreds},
      snapshot : Roots, snapshot_suffix : Suffixes, policy : Policies ]

\* 2022-11-01T16:00:00Z, and 2022-11-02T01:01:01.5Z
Instants == {Instant(19297, 57600, 0), Instant(19298, 3661, 500000000)}

\* lines a listing of the snapshot root may hold: the runner returns text,
\* which the cycle takes as it comes
CycleLines == {<<"2", "0", "2", "2", "-", "1", "1", "-", "0", "1", "T", "1", "2", ":", "0", "0", ":", "0", "0", "Z", "_", "t", "e", "s", "t", "_", "u", "s", "e", "r">>, <<"2", "0", "2", "2", "-", "1", "1", "-", "0", "1", "T", "1", "4", ":", "0", "0", ":", "0", "0", "+", "0", "1", ":", "0", "0", "_", "n">>, <<"2", "0", "2", "2", "-", "1", "1", "-", "0", "1", "T", "1", "2", ":", "0", "0", ":", "0", "0", "Z", "_", "x", "/", ".", ".", "/", ".", ".", "/", "d", "e", "s", "t", "i", "n", "a", "t", "i", "o", "n">>, <<"g", "a", "r", "b", "a", "g", "e">>, <<>>}

Listings(lines, n) == {join(ls, <<"\n">>) : ls \in SeqsUpTo(lines, n)}

ExecErrors == {<<"e", "1">>, <<"e", "2">>}

ReplyOk(out) == [ok |-> TRUE, out |-> out, err |-> <<>>]

ReplyErr(e) == [ok |-> FALSE, out |-> <<>>, err |-> e]

\* what the runner may answer to a command other than a listing
Replies == {ReplyOk(<<>>)} \cup {ReplyErr(e) : e \in ExecErrors}

ListingReplies(lines, n) ==
    {ReplyOk(out) : out \in Listings(lines, n)} \cup {ReplyErr(e) : e \in ExecErrors}

\* the sequences of distinct positions 1..n, of every length
Selections(n) ==
    UNION { {s \in [1..k -> 1..n] : \A i, j \in 1..k : i # j => s[i] # s[j]} : k \in 0..n }

NoOp == [name |-> "none"]

Running == [tag |-> "Running"]

Panicked == [tag |-> "Panic"]

-----------------------------------------------------------------------------
(* The backup cycle: Sync::execute_with_time (src/src/sync.rs) *)

Init ==
    /\ config \in Configs
    /\ date_time \in Instants
    /\ pc = "sync_backup"
    /\ calls = <<>>
    /\ replies = <<>>
    /\ snapshots = <<>>
    /\ to_be_deleted = <<>>
    /\ visited = 0
    /\ police_calls = 0
    /\ op = NoOp
    /\ result = Running

\* a remote operation of the cycle up to its call of the runner: an early
\* error ends the cycle (the ? operator), otherwise the command is issued
Issue(call, waiting) ==
    IF call.tag = "Err"
    THEN /\ result' = call
         /\ pc' = "done"
         /\ UNCHANGED calls
    ELSE /\ calls' = Append(calls, [command |-> call.command, args |-> call.args])
         /\ pc' = waiting
         /\ UNCHANGED result

\* an error of a remote operation swallowed: the cycle goes on
Return_continues(ret, next) ==
    /\ pc' = next
    /\ UNCHANGED result

\* the rest of a remote operation of the cycle: an error ends the cycle
Return(ret, next) ==
    IF ret.tag = "Err"
    THEN /\ result' = ret
         /\ pc' = "done"
    ELSE /\ pc' = next
         /\ UNCHANGED result

\* the name stamped as Display writes an instant: "2022-11-01 16:00:00 UTC"
snapshot_name_display ==
    LET secs == to_rfc3339_opts(date_time)
    IN  [i \in 1..(Len(secs) - 1) |-> IF secs[i] = "T" THEN " " ELSE secs[i]]
            \o <<" ", "U", "T", "C">> \o <<"_">> \o config.snapshot_suffix

\* the name stamped to the millisecond (SecondsFormat::Millis)
snapshot_name_millis ==
    LET secs == to_rfc3339_opts(date_time)
    IN  SubSeq(secs, 1, Len(secs) - 1) \o <<".">>
            \o Tail(Pad4(date_time.nanos \div 1000000)) \o <<"Z">> \o <<"_">>
            \o config.snapshot_suffix

snapshot_name == to_rfc3339_opts(date_time) \o <<"_">> \o config.snapshot_suffix

SyncBackup ==
    /\ pc = "sync_backup"
    /\ Issue(sync_backup_call(config.ssh_credentials, config.exclude_file,
                              config.source, config.destination, config.log_file),
             "sync_backup_exec")
    /\ UNCHANGED <<config, date_time, replies, snapshots, to_be_deleted, visited,
                   police_calls, op>>

\* the cycle going from the sync straight to the listing
SyncBackupReturn_skips_snapshot ==
    /\ pc = "sync_backup_exec"
    /\ \E reply \in Replies :
          /\ replies' = Append(replies, reply)
          /\ Return(sync_backup_ret(reply), "get_snapshots")
    /\ UNCHANGED <<config, date_time, calls, snapshots, to_be_deleted, visited,
                   police_calls, op>>

SyncBackupReturn ==
    /\ pc = "sync_backup_exec"
    /\ \E reply \in Replies :
          /\ replies' = Append(replies, reply)
          /\ Return(sync_backup_ret(reply), "create_snapshot")
    /\ UNCHANGED <<config, date_time, calls, snapshots, to_be_deleted, visited,
                   police_calls, op>>

CreateSnapshot ==
    /\ pc = "create_snapshot"
    /\ Issue(create_snapshot_call(config.ssh_credentials, config.destination,
                                  push(config.snapshot, snapshot_name)),
             "create_snapshot_exec")
    /\ UNCHANGED <<config, date_time, replies, snapshots, to_be_deleted, visited,
                   police_calls, op>>

\* a failed cp -al tried once more
CreateSnapshotReturn_retries ==
    /\ pc = "create_snapshot_exec"
    /\ \E reply \in Replies :
          /\ replies' = Append(replies, reply)
          /\ IF ~reply.ok /\ Len(calls) < 3
             THEN pc' = "create_snapshot" /\ UNCHANGED result
             ELSE Return(create_snapshot_ret(reply), "get_snapshots")
    /\ UNCHANGED <<config, date_time, calls, snapshots, to_be_deleted, visited,
                   police_calls, op>>

CreateSnapshotReturn ==
    /\ pc = "create_snapshot_exec"
    /\ \E reply \in Replies :
          /\ replies' = Append(replies, reply)
          /\ Return(create_snapshot_ret(reply), "get_snapshots")
    /\ UNCHANGED <<config, date_time, calls, snapshots, to_be_deleted, visited,
                   police_calls, op>>

GetSnapshots ==
    /\ pc = "get_snapshots"
    /\ Issue(get_snapshots_call(config.ssh_credentials, config.snapshot),
             "get_snapshots_exec")
    /\ UNCHANGED <<config, date_time, replies, snapshots, to_be_deleted, visited,
                   police_calls, op>>

GetSnapshotsReturn ==
    /\ pc = "get_snapshots_exec"
    /\ \E reply \in ListingReplies(CycleLines, MaxEntries) :
          LET ret == get_snapshots_ret(reply)
          IN  /\ replies' = Append(replies, reply)
              /\ Return(ret, "police")
              /\ snapshots' = IF ret.tag = "Ok" THEN ret.val ELSE snapshots
    /\ UNCHANGED <<config, date_time, calls, to_be_deleted, visited, police_calls, op>>

\* The retention windows are converted first; policer::police is called only
\* when every conversion succeeded.  police is an external crate: it returns
\* some of the entries it was given, in some order.
Police ==
    /\ pc = "police"
    /\ LET durations == collect_durations(config.policy)
       IN  IF durations.tag = "Panic"
           THEN /\ result' = Panicked
                /\ pc' = "done"
                /\ UNCHANGED <<to_be_deleted, police_calls>>
           ELSE IF durations.tag = "Err"
           THEN /\ result' = durations
                /\ pc' = "done"
                /\ UNCHANGED <<to_be_deleted, police_calls>>
           ELSE /\ \E sel \in Selections(Len(snapshots)) :
                      to_be_deleted' = [i \in 1..Len(sel) |-> snapshots[sel[i]]]
                /\ police_calls' = police_calls + 1
                /\ pc' = "delete"
                /\ UNCHANGED result
    /\ UNCHANGED <<config, date_time, calls, replies, snapshots, visited, op>>

\* the delete loop handing over the snapshot root, the name not pushed
DeleteSnapshot_root ==
    /\ pc = "delete"
    /\ visited < Len(to_be_deleted)
    /\ visited' = visited + 1
    /\ Issue(delete_snapshot_call(config.ssh_credentials, config.snapshot),
             "delete_snapshot_exec")
    /\ UNCHANGED <<config, date_time, replies, snapshots, to_be_deleted, police_calls, op>>

\* the delete loop running over the listing in place of the to-delete list
DeleteSnapshot_from_listing ==
    /\ pc = "delete"
    /\ visited < Len(to_be_deleted)
    /\ visited' = visited + 1
    /\ Issue(delete_snapshot_call(config.ssh_credentials,
                                  push(config.snapshot, snapshots[visited + 1][2])),
             "delete_snapshot_exec")
    /\ UNCHANGED <<config, date_time, replies, snapshots, to_be_deleted, police_calls, op>>

\* the body of the delete loop for the next entry, up to the runner's call
DeleteSnapshot ==
    /\ pc = "delete"
    /\ visited < Len(to_be_deleted)
    /\ visited' = visited + 1
    /\ Issue(delete_snapshot_call(config.ssh_credentials,
                                  push(config.snapshot, to_be_deleted[visited + 1][2])),
             "delete_snapshot_exec")
    /\ UNCHANGED <<config, date_time, replies, snapshots, to_be_deleted, police_calls, op>>

\* a best-effort delete loop: a failed deletion is skipped
DeleteSnapshotReturn_best_effort ==
    /\ pc = "delete_snapshot_exec"
    /\ \E reply \in Replies :
          /\ replies' = Append(replies, reply)
          /\ pc' = "delete"
    /\ UNCHANGED <<config, date_time, calls, snapshots, to_be_deleted, visited,
                   police_calls, op, result>>

DeleteSnapshotReturn ==
    /\ pc = "delete_snapshot_exec"
    /\ \E reply \in Replies :
          /\ replies' = Append(replies, reply)
          /\ Return(delete_snapshot_ret(reply), "delete")
    /\ UNCHANGED <<config, date_time, calls, snapshots, to_be_deleted, visited,
                   police_calls, op>>

\* the delete loop is through: Ok(())
Finish ==
    /\ pc = "delete"
    /\ visited = Len(to_be_deleted)
    /\ result' = Ok(<<>>)
    /\ pc' = "done"
    /\ UNCHANGED <<config, date_time, calls, replies, snapshots, to_be_deleted,
                   visited, police_calls, op>>

Next ==
    \/ SyncBackup
    \/ SyncBackupReturn
    \/ CreateSnapshot
    \/ CreateSnapshotReturn
    \/ GetSnapshots
    \/ GetSnapshotsReturn
    \/ Police
    \/ DeleteSnapshot
    \/ DeleteSnapshotReturn
    \/ Finish

Spec == Init /\ [][Next]_vars

-----------------------------------------------------------------------------
(* The remote operations called on their own, as a caller of the library    *)
(* may call them: with any credentials and any paths.                       *)

OpCreds == {TheCreds, [user |-> <<"r">>, id_file |-> <<"k", " ", "2">>, host |-> <<"b">>]}

OpPaths == {<<"a">>, <<"/", "b", " ", "c">>, <<>>, <<"x", NonUtf8>>}

DeletePaths ==
    { <<"/">>, <<>>, <<"/", "/">>, <<"/", ".">>, <<"/", "a", "/", ".", ".">>,
      <<"a">>, <<"/", "a">>, <<"a", "/", "b">>, <<NonUtf8>> }

\* names a listing may hold, each with what an RFC 3339 reader makes of the
\* text before its first underscore: good (an instant, date) or not
Line(text, good, date) == [text |-> text, good |-> good, date |-> date]

OpLines ==
    { Line(<<"2", "0", "2", "2", "-", "1", "1", "-", "0", "2", "T", "2", "1", ":", "2", "2", ":", "1", "0", "Z", "_", "t", "e", "s", "t", "1">>, TRUE, Instant(19298, 76930, 0)),
      Line(<<"2", "0", "2", "2", "-", "1", "1", "-", "0", "1", "T", "2", "1", ":", "2", "2", ":", "1", "0", "+", "0", "1", ":", "0", "0", "_", "a", "_", "b">>, TRUE, Instant(19297, 73330, 0)),
      Line(<<"2", "0", "2", "2", "-", "1", "1", "-", "0", "1", "T", "2", "1", ":", "2", "2", ":", "1", "0", "Z">>, TRUE, Instant(19297, 76930, 0)),
      Line(<<"g", "a", "r", "b", "a", "g", "e">>, FALSE, Instant(0, 0, 0)),
      Line(<<"2", "0", "2", "2", "-", "1", "3", "-", "0", "1", "T", "2", "1", ":", "2", "2", ":", "1", "0", "Z", "_", "x">>, FALSE, Instant(0, 0, 0)),
      Line(<<"_", "2", "0", "2", "2", "-", "1", "1", "-", "0", "1", "T", "2", "1", ":", "2", "2", ":", "1", "0", "Z">>, FALSE, Instant(0, 0, 0)),
      Line(<<>>, FALSE, Instant(0, 0, 0)) }

Texts(lines) == [i \in 1..Len(lines) |-> lines[i].text]

InitOps ==
    /\ config = NoOp
    /\ date_time = Instant(0, 0, 0)
    /\ pc = "idle"
    /\ calls = <<>>
    /\ replies = <<>>
    /\ snapshots = <<>>
    /\ to_be_deleted = <<>>
    /\ visited = 0
    /\ police_calls = 0
    /\ op = NoOp
    /\ result = Running

\* one call of a remote operation: an early error returns without the runner
\* being called, otherwise the runner is called once and answers
Call(inputs, call, reply, ret) ==
    /\ pc' = "returned"
    /\ op' = inputs
    /\ IF call.tag = "Err"
       THEN /\ result' = call
            /\ UNCHANGED <<calls, replies>>
       ELSE /\ calls' = Append(calls, [command |-> call.command, args |-> call.args])
            /\ replies' = Append(replies, reply)
            /\ result' = ret
    /\ UNCHANGED <<config, date_time, snapshots, to_be_deleted, visited, police_calls>>

OpSyncBackup ==
    /\ pc = "idle"
    /\ \E c \in OpCreds, e \in OpPaths, s \in OpPaths, d \in OpPaths, l \in OpPaths,
          reply \in Replies :
           Call([name |-> "sync_backup", ssh_creds |-> c, exclude_file |-> e,
                 source |-> s, destination |-> d, log_file |-> l],
                sync_backup_call(c, e, s, d, l), reply, sync_backup_ret(reply))

OpCreateSnapshot ==
    /\ pc = "idle"
    /\ \E c \in OpCreds, b \in OpPaths, s \in OpPaths, reply \in Replies :
           Call([name |-> "create_snapshot", ssh_creds |-> c, backup_path |-> b,
                 snapshot_path |-> s],
                create_snapshot_call(c, b, s), reply, create_snapshot_ret(reply))

OpGetSnapshots ==
    /\ pc = "idle"
    /\ \E c \in OpCreds, s \in OpPaths, lines \in SeqsUpTo(OpLines, MaxLines),
          failure \in {<<>>} \cup ExecErrors :
           LET reply == IF failure = <<>> THEN ReplyOk(join(Texts(lines), <<"\n">>))
                        ELSE ReplyErr(failure)
           IN  Call([name |-> "get_snapshots", ssh_creds |-> c, snapshot_path |-> s,
                     lines |-> lines],
                    get_snapshots_call(c, s), reply, get_snapshots_ret(reply))

OpDeleteSnapshot ==
    /\ pc = "idle"
    /\ \E c \in OpCreds, s \in DeletePaths, reply \in Replies :
           Call([name |-> "delete_snapshot", ssh_creds |-> c, snapshot_path |-> s],
                delete_snapshot_call(c, s), reply, delete_snapshot_ret(reply))

NextOps ==
    \/ OpSyncBackup
    \/ OpCreateSnapshot
    \/ OpGetSnapshots
    \/ OpDeleteSnapshot

SpecOps == InitOps /\ [][NextOps]_vars

-----------------------------------------------------------------------------
(* The conversion of a retention window on its own *)

MinuteValues == {None, Some(2), Some(30), Some(0 - 5), Some(40000), Some(IntMax)}

HourValues == {None, Some(1), Some(500), Some(600)}

DayValues == {None, Some(4), Some(20), Some(0 - 24)}

WeekValues == {None, Some(2), Some(3), Some(0 - 3), Some(4)}

Windows ==
    {CustomDuration(mi, h, d, w) :
        mi \in MinuteValues, h \in HourValues, d \in DayValues, w \in WeekValues}

InitDur ==
    /\ config = NoOp
    /\ date_time = Instant(0, 0, 0)
    /\ pc = "idle"
    /\ calls = <<>>
    /\ replies = <<>>
    /\ snapshots = <<>>
    /\ to_be_deleted = <<>>
    /\ visited = 0
    /\ police_calls = 0
    /\ op \in {[name |-> "try_from", cd |-> cd] : cd \in Windows}
    /\ result = Running

\* (&cd).try_into()
TryFrom ==
    /\ pc = "idle"
    /\ op.name = "try_from"
    /\ result' = try_from(op.cd)
    /\ pc' = "returned"
    /\ UNCHANGED <<config, date_time, calls, replies, snapshots, to_be_deleted,
                   visited, police_calls, op>>

NextDur == TryFrom

SpecDur == InitDur /\ [][NextDur]_vars

-----------------------------------------------------------------------------
(* The cycle against a host that nothing else changes: the listing holds    *)
(* the directory the cp -al of the cycle created, next to what was there.   *)

\* the directories of the snapshot root before the cycle
HostLines ==
    { Line(<<"2", "0", "2", "2", "-", "1", "1", "-", "0", "1", "T", "1", "2", ":", "0", "0", ":", "0", "0", "Z", "_", "t", "e", "s", "t", "_", "u", "s", "e", "r">>, TRUE, Instant(19297, 43200, 0)),
      Line(<<"2", "0", "2", "2", "-", "1", "1", "-", "0", "1", "T", "1", "4", ":", "0", "0", ":", "0", "0", "+", "0", "1", ":", "0", "0", "_", "n">>, TRUE, Instant(19297, 46800, 0)),
      Line(<<"g", "a", "r", "b", "a", "g", "e">>, FALSE, Instant(0, 0, 0)) }

\* what ls -A1 prints for a root that holds `created` and at most MaxEntries
\* of the earlier directories: one name a line, in some order
HostListings(created) ==
    LET names == {l.text : l \in HostLines} \cup {created}
    IN  { join(ls, <<"\n">>) \o <<"\n">> :
            ls \in { t \in SeqsUpTo(names, MaxEntries + 1) :
                        /\ \E i \in 1..Len(t) : t[i] = created
                        /\ \A i, j \in 1..Len(t) : i # j => t[i] # t[j] } }

\* the last component of a path
file_name(path) == split(path, "/")[Len(split(path, "/"))]

\* the return of the listing, the runner answering for such a host
GetSnapshotsReturnFromHost ==
    /\ pc = "get_snapshots_exec"
    /\ \E reply \in {ReplyOk(out) : out \in HostListings(file_name(calls[2].args[9]))}
                        \cup {ReplyErr(e) : e \in ExecErrors} :
          LET ret == get_snapshots_ret(reply)
          IN  /\ replies' = Append(replies, reply)
              /\ Return(ret, "police")
              /\ snapshots' = IF ret.tag = "Ok" THEN ret.val ELSE snapshots
    /\ UNCHANGED <<config, date_time, calls, to_be_deleted, visited, police_calls, op>>

NextHost ==
    \/ SyncBackup
    \/ SyncBackupReturn
    \/ CreateSnapshot
    \/ CreateSnapshotReturn
    \/ GetSnapshots
    \/ GetSnapshotsReturnFromHost
    \/ Police
    \/ DeleteSnapshot
    \/ DeleteSnapshotReturn
    \/ Finish

SpecHost == Init /\ [][NextHost]_vars

-----------------------------------------------------------------------------
(* The name of a snapshot, written by the cycle and read back by the        *)
(* listing, on its own.                                                     *)

\* 0000-01-01, 1970-01-01, 2000-02-29, 2022-11-01, 9999-12-31, 10000-01-01
NameDays == {0 - 719528, 0, 11016, 19297, 2932896, 2932897}

NameInstants ==
    {Instant(d, sec, n) : d \in NameDays, sec \in {0, 3661, 86399},
                          n \in {0, 500000000, 999999999}}

NameSuffixes == {<<>>, <<"n">>, <<"t", "e", "s", "t", "_", "u", "s", "e", "r">>, <<"_", "x">>}

InitName ==
    /\ config \in [snapshot_suffix : NameSuffixes]
    /\ date_time \in NameInstants
    /\ pc = "idle"
    /\ calls = <<>>
    /\ replies = <<>>
    /\ snapshots = <<>>
    /\ to_be_deleted = <<>>
    /\ visited = 0
    /\ police_calls = 0
    /\ op = [name |-> "snapshot_name"]
    /\ result = Running

\* the name the cycle gives the snapshot, as a line of the listing
ParseSnapshotName ==
    /\ pc = "idle"
    /\ op.name = "snapshot_name"
    /\ result' = parse_line(snapshot_name)
    /\ pc' = "returned"
    /\ UNCHANGED <<config, date_time, calls, replies, snapshots, to_be_deleted,
                   visited, police_calls, op>>

NextName == ParseSnapshotName

SpecName == InitName /\ [][NextName]_vars

-----------------------------------------------------------------------------
(* Properties *)

Failed(e) == result.tag = "Err" /\ result.err = e

IsRsync(call) == call.command = <<"r", "s", "y", "n", "c">>

IsRemote(call, verb, flag) ==
    /\ call.command = <<"s", "s", "h">>
    /\ Len(call.args) >= 7
    /\ call.args[6] = verb
    /\ call.args[7] = flag

IsCp(call) == IsRemote(call, <<"c", "p">>, <<"-", "a", "l">>)

IsLs(call) == IsRemote(call, <<"l", "s">>, <<"-", "A", "1">>)

IsRm(call) == IsRemote(call, <<"r", "m">>, <<"-", "r">>)

\* the runner has answered call j, and with success
Returned(j) == j <= Len(replies) /\ replies[j].ok

\* C1: delete_snapshot called with "/" or "" returns PathDeletionError
\* carrying that path, and the command runner has received no call.
C1_GuardRejectsRootAndEmpty ==
    (op.name = "delete_snapshot" /\ op.snapshot_path \in {<<"/">>, <<>>})
        => /\ Failed(PathDeletionError(op.snapshot_path))
           /\ calls = <<>>

C1_Witness ==
    /\ op.name = "delete_snapshot"
    /\ op.snapshot_path = <<>>
    /\ pc = "returned"
    /\ result.tag = "Err"

\* what a path names once empty components, "." and ".." are resolved
RECURSIVE Resolve(_, _)
Resolve(components, stack) ==
    IF components = <<>> THEN stack
    ELSE LET c == Head(components)
         IN  Resolve(Tail(components),
                     IF c = <<>> \/ c = <<".">> THEN stack
                     ELSE IF c = <<".", ".">>
                          THEN SubSeq(stack, 1, Len(stack) - 1)
                          ELSE Append(stack, c))

ResolvesToRoot(path) ==
    /\ path # <<>>
    /\ path[1] = "/"
    /\ Resolve(split(path, "/"), <<>>) = <<>>

\* C2: whatever path delete_snapshot is given, the runner never receives an
\* rm -r whose target resolves to the root of the remote file system.
C2_NoDeletionOfRoot ==
    \A i \in 1..Len(calls) :
        IsRm(calls[i]) => ~ResolvesToRoot(calls[i].args[8])

\* C3: a cycle that ends in success has issued one rsync, one cp -al, one
\* ls -A1 and then only rm -r, in this order; at any moment, an rm -r has
\* been issued only after the listing returned, a cp -al only after rsync
\* returned.
C3_CommandOrder ==
    /\ (pc = "done" /\ result.tag = "Ok") =>
          /\ Len(calls) >= 3
          /\ IsRsync(calls[1])
          /\ IsCp(calls[2])
          /\ IsLs(calls[3])
          /\ \A i \in 4..Len(calls) : IsRm(calls[i])
    /\ \A i \in 1..Len(calls) :
          /\ IsRm(calls[i]) => \E j \in 1..(i - 1) : IsLs(calls[j]) /\ Returned(j)
          /\ IsCp(calls[i]) => \E j \in 1..(i - 1) : IsRsync(calls[j]) /\ Returned(j)

C3_Witness ==
    /\ pc = "done"
    /\ result.tag = "Ok"
    /\ Len(calls) = 5
    /\ IsRm(calls[4])
    /\ IsRm(calls[5])

\* C4: once the runner has answered a command of the cycle with a failure,
\* that command is the last one issued and the cycle has ended in that error.
C4_AbortOnFirstFailure ==
    \A i \in 1..Len(replies) :
        ~replies[i].ok =>
            /\ Len(calls) = i
            /\ pc = "done"
            /\ Failed(ExecError(replies[i].err))

C4_Witness ==
    /\ Len(replies) = 2
    /\ ~replies[2].ok
    /\ IsCp(calls[2])
    /\ Len(calls) = 2

\* C5: when the deletion of entry k of the to-delete list fails, the cycle
\* has ended in that error, it has issued rm -r for the entries 1..k and for
\* no other, the earlier deletions had succeeded, and no step is left to take.
C5_DeleteLoopStopsAtFirstFailure ==
    (Len(replies) >= 4 /\ ~replies[Len(replies)].ok) =>
        LET k == Len(replies) - 3
        IN  /\ k <= Len(to_be_deleted)
            /\ visited = k
            /\ Len(calls) = 3 + k
            /\ \A i \in 1..k :
                  /\ IsRm(calls[3 + i])
                  /\ calls[3 + i].args[8] = push(config.snapshot, to_be_deleted[i][2])
            /\ \A i \in 1..(k - 1) : replies[3 + i].ok
            /\ Failed(ExecError(replies[3 + k].err))
            /\ pc = "done"
            /\ ~ENABLED Next

C5_Witness ==
    /\ Len(to_be_deleted) = 2
    /\ visited = 1
    /\ pc = "done"
    /\ result.tag = "Err"
    /\ Len(calls) = 4

\* a retention window of the configuration does not convert to a duration
ConversionFails == \E i \in 1..Len(config.policy) : try_from(config.policy[i]).tag # "Ok"

\* C6: when the conversion of a retention window fails, the cycle ends in
\* DurationConversionError, policer::police is not called and no rm -r is
\* issued.
C6_ConversionFailureEndsCycle ==
    (pc = "done" /\ Returned(3) /\ ConversionFails) =>
        /\ Failed(DurationConversionError)
        /\ police_calls = 0
        /\ \A i \in 1..Len(calls) : ~IsRm(calls[i])

Convertible(path) == \A i \in 1..Len(path) : path[i] # NonUtf8

\* the outcome of an operation that does nothing but run one command
RunnerOutcome ==
    /\ Len(replies) = 1
    /\ IF replies[1].ok
       THEN result.tag = "Ok" /\ result.val = replies[1].out
       ELSE Failed(ExecError(replies[1].err))

C8_SnapshotArguments ==
    ( /\ op.name = "create_snapshot"
      /\ Convertible(op.backup_path) /\ Convertible(op.snapshot_path) ) =>
        /\ Len(calls) = 1
        /\ calls[1].command = <<"s", "s", "h">>
        /\ calls[1].args =
              << <<"-", "l">>, op.ssh_creds.user, <<"-", "i">>, op.ssh_creds.id_file,
                 op.ssh_creds.host, <<"c", "p">>, <<"-", "a", "l">>,
                 op.backup_path, op.snapshot_path >>
        /\ RunnerOutcome

C8_Witness ==
    /\ op.name = "create_snapshot"
    /\ op.backup_path = <<"a">>
    /\ op.snapshot_path = <<"/", "b", " ", "c">>
    /\ Len(calls) = 1
    /\ result.tag = "Ok"

\* the names of a listing that carry a timestamp, each with its instant, in
\* the order of the listing
RECURSIVE Expected(_)
Expected(lines) ==
    IF lines = <<>> THEN <<>>
    ELSE (IF lines[1].good THEN << <<lines[1].date, lines[1].text>> >> ELSE <<>>)
         \o Expected(Tail(lines))

\* C9: of a listing, get_snapshots returns the lines whose text before the
\* first underscore is an RFC 3339 timestamp, each as (instant, unchanged
\* line), in the order of the listing, repeated lines repeated; the other
\* lines, empty ones among them, are left out.
C9_ListingParsed ==
    (op.name = "get_snapshots" /\ Len(replies) = 1 /\ replies[1].ok) =>
        /\ result.tag = "Ok"
        /\ result.val = Expected(op.lines)

C9_Witness ==
    /\ op.name = "get_snapshots"
    /\ Len(replies) = 1
    /\ replies[1].ok
    /\ Len(op.lines) = 2
    /\ op.lines[1].good
    /\ op.lines[1].text[Len(op.lines[1].text)] = "b"
    /\ ~op.lines[2].good
    /\ result.tag = "Ok"
    /\ Len(result.val) = 1

\* C10 as stated: get_snapshots returns an error only when the call of the
\* runner failed, and Ok for every output the runner returns.
C10_OnlyTransportErrors ==
    op.name = "get_snapshots" =>
        /\ result.tag = "Err" => (Len(replies) = 1 /\ ~replies[1].ok)
        /\ (Len(replies) = 1 /\ replies[1].ok) => result.tag = "Ok"

\* C10, amended: get_snapshots returns an error only when the call of the
\* runner failed (that ExecError) or when the snapshot path is not valid
\* UTF-8 (PathConversionError, the runner not called); for every output the
\* runner returns it returns Ok: no parse or split error reaches the caller.
C10_TransportOrPathErrors ==
    op.name = "get_snapshots" =>
        /\ result.tag = "Err" =>
              \/ /\ Len(replies) = 1
                 /\ ~replies[1].ok
                 /\ result.err = ExecError(replies[1].err)
              \/ /\ ~Convertible(op.snapshot_path)
                 /\ calls = <<>>
                 /\ result.err = PathConversionError(<<"s", "n", "a", "p", "s", "h", "o", "t">>)
        /\ (Len(replies) = 1 /\ replies[1].ok) => result.tag = "Ok"

C10_Witness ==
    /\ op.name = "get_snapshots"
    /\ Len(replies) = 1
    /\ replies[1].ok
    /\ Len(op.lines) = 2
    /\ ~op.lines[1].good
    /\ op.lines[1].text # <<>>
    /\ ~op.lines[2].good
    /\ result.tag = "Ok"
    /\ result.val = <<>>


\* a name under a directory: root/name, the separator left out when the
\* root is empty or ends in one
Joined(root, name) ==
    IF root = <<>> THEN name
    ELSE IF root[Len(root)] = "/" THEN root \o name
    ELSE root \o <<"/">> \o name

\* the instants a cycle is run at, written by hand as RFC 3339, UTC, whole
\* seconds
Stamp(t) ==
    IF t = Instant(19297, 57600, 0) THEN <<"2", "0", "2", "2", "-", "1", "1", "-", "0", "1", "T", "1", "6", ":", "0", "0", ":", "0", "0", "Z">>
    ELSE IF t = Instant(19298, 3661, 500000000) THEN <<"2", "0", "2", "2", "-", "1", "1", "-", "0", "2", "T", "0", "1", ":", "0", "1", ":", "0", "1", "Z">>
    ELSE <<>>

\* C11: the cp -al of a cycle copies the configured destination to the
\* snapshot root joined with <instant as RFC 3339, UTC, whole seconds>,
\* an underscore and the configured suffix.
C11_SnapshotTarget ==
    \A i \in 1..Len(calls) :
        IsCp(calls[i]) =>
            /\ Len(calls[i].args) = 9
            /\ calls[i].args[8] = config.destination
            /\ calls[i].args[9] =
                  Joined(config.snapshot,
                         Stamp(date_time) \o <<"_">> \o config.snapshot_suffix)
            /\ Len(Stamp(date_time)) = 20

C11_Witness ==
    /\ Len(calls) >= 2
    /\ IsCp(calls[2])
    /\ date_time.nanos > 0
    /\ config.snapshot = <<"s", "n", "a", "p", "s", "h", "o", "t">>
    /\ config.snapshot_suffix = <<"t", "e", "s", "t", "_", "u", "s", "e", "r">>


\* the path arguments of the operation that was called, each with the name
\* the operation gives it in PathConversionError
PathArguments ==
    IF op.name = "sync_backup"
    THEN { <<<<"e", "x", "c", "l", "u", "d", "e", " ", "f", "i", "l", "e">>, op.exclude_file>>, <<<<"d", "e", "s", "t", "i", "n", "a", "t", "i", "o", "n">>, op.destination>>,
           <<<<"s", "o", "u", "r", "c", "e">>, op.source>>, <<<<"l", "o", "g", " ", "f", "i", "l", "e">>, op.log_file>> }
    ELSE IF op.name = "create_snapshot"
    THEN { <<<<"b", "a", "c", "k", "u", "p">>, op.backup_path>>, <<<<"s", "n", "a", "p", "s", "h", "o", "t">>, op.snapshot_path>> }
    ELSE IF op.name \in {"get_snapshots", "delete_snapshot"}
    THEN { <<<<"s", "n", "a", "p", "s", "h", "o", "t">>, op.snapshot_path>> }
    ELSE {}

Unconvertible == {a \in PathArguments : ~Convertible(a[2])}

\* C12: when a path argument of sync_backup, create_snapshot, get_snapshots
\* or delete_snapshot is not valid UTF-8, the operation returns
\* PathConversionError naming such an argument and the runner is not called.
C12_PathConversionShortCircuits ==
    Unconvertible # {} =>
        /\ result.tag = "Err"
        /\ result.err.kind = "PathConversionError"
        /\ \E a \in Unconvertible : result.err.info = a[1]
        /\ calls = <<>>
        /\ replies = <<>>

C12_Witness ==
    /\ op.name = "sync_backup"
    /\ ~Convertible(op.source)
    /\ Convertible(op.exclude_file)
    /\ Convertible(op.destination)
    /\ ~Convertible(op.log_file)
    /\ result.tag = "Err"
    /\ result.err = PathConversionError(<<"s", "o", "u", "r", "c", "e">>)


\* what a component of a window is worth in seconds, absent ones nothing
Worth(component, unit) == IF component.some THEN component.v * unit ELSE 0

Seconds(cd) ==
    Worth(cd.minutes, 60) + Worth(cd.hours, 3600) + Worth(cd.days, 86400)
        + Worth(cd.weeks, 604800)

\* the components that are present
Present(cd) ==
    {c \in {<<cd.minutes, 60>>, <<cd.hours, 3600>>, <<cd.days, 86400>>,
            <<cd.weeks, 604800>>} : c[1].some}

\* a component that fits a duration by itself
Fits(c) == c[1].v <= DurationMax \div c[2] /\ c[1].v >= 0 - (DurationMax \div c[2])

\* C13: a conversion that yields a duration yields the sum of the components
\* that are present; a window of one component n that fits a duration
\* converts to n of its unit, an empty window to zero.
C13_SumOfComponents ==
    (op.name = "try_from" /\ pc = "returned") =>
        /\ result.tag = "Ok" => result.val = Seconds(op.cd)
        /\ (Cardinality(Present(op.cd)) <= 1 /\ \A c \in Present(op.cd) : Fits(c)) =>
              /\ result.tag = "Ok"
              /\ \A c \in Present(op.cd) : result.val = c[1].v * c[2]
              /\ Present(op.cd) = {} => result.val = 0

C13_Witness ==
    /\ op.name = "try_from"
    /\ pc = "returned"
    /\ op.cd = CustomDuration(Some(30), None, Some(4), Some(2))
    /\ result.tag = "Ok"
    /\ result.val = 1557000


\* C19: the conversion of a window returns the exact sum of its components
\* or DurationConversionError, and nothing else; a component that does not
\* fit a duration by itself is reported as DurationConversionError.
C19_SumOrConversionError ==
    (op.name = "try_from" /\ pc = "returned") =>
        /\ \/ result.tag = "Ok" /\ result.val = Seconds(op.cd)
           \/ Failed(DurationConversionError)
        /\ (\E c \in Present(op.cd) : ~Fits(c)) => Failed(DurationConversionError)


\* the rm -r of the cycle for a name of the snapshot root
RmOf(name) ==
    [ command |-> <<"s", "s", "h">>,
      args |-> << <<"-", "l">>, config.ssh_credentials.user,
                  <<"-", "i">>, config.ssh_credentials.id_file,
                  config.ssh_credentials.host,
                  <<"r", "m">>, <<"-", "r">>, Joined(config.snapshot, name) >> ]

\* C15: a cycle that ends in success has issued, after the listing, one
\* command per entry of the to-delete list, in its order, each the rm -r of
\* the snapshot root joined with the raw name of the entry; at any moment
\* every rm -r issued is that of an entry of the list, at its position.
C15_DeleteCommands ==
    /\ (pc = "done" /\ result.tag = "Ok") =>
          /\ Len(calls) = 3 + Len(to_be_deleted)
          /\ \A i \in 1..Len(to_be_deleted) : calls[3 + i] = RmOf(to_be_deleted[i][2])
    /\ \A i \in 1..Len(calls) :
          IsRm(calls[i]) =>
              /\ i > 3
              /\ i - 3 <= Len(to_be_deleted)
              /\ calls[i] = RmOf(to_be_deleted[i - 3][2])

C15_Witness ==
    /\ pc = "done"
    /\ result.tag = "Ok"
    /\ Len(snapshots) = 2
    /\ Len(to_be_deleted) = 2
    /\ to_be_deleted[1] = snapshots[2]
    /\ to_be_deleted[1] # snapshots[1]
    /\ Len(calls) = 5

\* every reply of the runner so far is a success
AllReturnedOk == \A i \in 1..Len(replies) : replies[i].ok

\* C16: a cycle that is not over can take a step; a cycle that is over ended
\* in success or in an error; it ended in success exactly when sync,
\* snapshot, listing, the conversion of the retention windows and every
\* deletion succeeded, and then the runner was called 3 + (number of
\* to-delete entries) times.
C16_OneOutcome ==
    /\ pc # "done" => (result = Running /\ ENABLED Next)
    /\ pc = "done" =>
          /\ result.tag \in {"Ok", "Err"}
          /\ result.tag = "Ok" <=>
                /\ AllReturnedOk
                /\ ~ConversionFails
                /\ Len(replies) = 3 + Len(to_be_deleted)
          /\ result.tag = "Ok" => Len(calls) = 3 + Len(to_be_deleted)

CountCalls(Is(_)) == Cardinality({i \in 1..Len(calls) : Is(calls[i])})

\* C17: in a cycle rsync is issued once, cp -al and ls -A1 at most once,
\* rm -r once per entry of the to-delete list the loop has reached, and a
\* command the runner answered with a failure is followed by no command.
C17_NoRetries ==
    /\ CountCalls(IsRsync) = (IF pc = "sync_backup" THEN 0 ELSE 1)
    /\ CountCalls(IsCp) <= 1
    /\ CountCalls(IsLs) <= 1
    /\ CountCalls(IsRm) <= Len(to_be_deleted)
    /\ CountCalls(IsRm) = (IF Len(calls) > 3 THEN Len(calls) - 3 ELSE 0)
    /\ \A i \in 1..CountCalls(IsRm) : calls[3 + i] = RmOf(to_be_deleted[i][2])
    /\ \A i \in 1..Len(replies) : ~replies[i].ok => Len(calls) = i

C17_Witness ==
    /\ pc = "done"
    /\ Len(calls) = 5
    /\ Len(replies) = 5
    /\ replies[4].ok
    /\ ~replies[5].ok


\* the names of the listings of the cycle that carry no RFC 3339 prefix
DroppedNames == {<<"g", "a", "r", "b", "a", "g", "e">>, <<>>}

\* the names of the listing the cycle has received
Listed == {split(replies[3].out, "\n")[k] : k \in 1..Len(split(replies[3].out, "\n"))}

\* C20: every rm -r of a cycle has for target the snapshot root joined with
\* a name of the listing that carries an RFC 3339 prefix; none has for target
\* the root joined with a name the parser dropped.
C20_DroppedNamesNeverDeleted ==
    \A i \in 1..Len(calls) :
        IsRm(calls[i]) =>
            /\ \E name \in (Listed \cap CycleLines) \ DroppedNames :
                  calls[i].args[8] = Joined(config.snapshot, name)
            /\ \A name \in DroppedNames :
                  calls[i].args[8] # Joined(config.snapshot, name)

C20_Witness ==
    /\ pc = "done"
    /\ result.tag = "Ok"
    /\ Len(calls) = 4
    /\ IsRm(calls[4])
    /\ Listed \cap DroppedNames # {}


\* C18: on a host that only the cycle changes, the snapshots the listing
\* step returns, which are those handed to the retention evaluator, hold
\* the snapshot the cycle created, as (instant of the cycle cut to whole
\* seconds, name as created), and every earlier directory whose name
\* carries an RFC 3339 prefix, as (that instant, name).
C18_ListingHoldsCreated ==
    (Len(replies) >= 3 /\ replies[3].ok) =>
        /\ \E k \in 1..Len(snapshots) :
              snapshots[k] = << Instant(date_time.days, date_time.secs, 0),
                                Stamp(date_time) \o <<"_">> \o config.snapshot_suffix >>
        /\ \A l \in HostLines :
              (l.good /\ l.text \in Listed) =>
                  \E k \in 1..Len(snapshots) : snapshots[k] = <<l.date, l.text>>

C18_Witness ==
    /\ pc = "police"
    /\ replies[3].ok
    /\ date_time.nanos > 0
    /\ config.snapshot_suffix = <<"t", "e", "s", "t", "_", "u", "s", "e", "r">>
    /\ Len(snapshots) = 3
    /\ snapshots[3][1] = Instant(date_time.days, date_time.secs, 0)


\* A path read without the file system: "." and empty components dropped,
\* ".." taking back the component before it, kept at the head of a
\* relative path.
RECURSIVE Climb(_, _, _)
Climb(components, stack, absolute) ==
    IF components = <<>> THEN stack
    ELSE LET c == Head(components)
         IN  Climb(Tail(components),
                   IF c = <<>> \/ c = <<".">> THEN stack
                   ELSE IF c = <<".", ".">>
                        THEN IF stack # <<>> /\ stack[Len(stack)] # <<".", ".">>
                             THEN SubSeq(stack, 1, Len(stack) - 1)
                             ELSE IF absolute THEN stack ELSE Append(stack, c)
                        ELSE Append(stack, c),
                   absolute)

Lexical(path) ==
    LET absolute == path # <<>> /\ path[1] = "/"
    IN  [absolute |-> absolute, parts |-> Climb(split(path, "/"), <<>>, absolute)]

DirectChild(path, root) ==
    /\ Lexical(path).absolute = Lexical(root).absolute
    /\ Len(Lexical(path).parts) = Len(Lexical(root).parts) + 1
    /\ SubSeq(Lexical(path).parts, 1, Len(Lexical(root).parts)) = Lexical(root).parts
    /\ Lexical(path).parts[Len(Lexical(path).parts)] # <<".", ".">>

\* C21: whatever the snapshot root and the listing, the target of every
\* rm -r of a cycle is a direct child of the snapshot root, and so neither
\* the root, nor the backup destination, nor a path outside the root.
C21_TargetsAreChildrenOfRoot ==
    \A i \in 1..Len(calls) :
        IsRm(calls[i]) =>
            /\ DirectChild(calls[i].args[8], config.snapshot)
            /\ Lexical(calls[i].args[8]) # Lexical(config.snapshot)
            /\ Lexical(calls[i].args[8]) # Lexical(config.destination)


\* C22: no cycle ends in PathDeletionError, whatever the snapshot root, ""
\* and "/" among them: every entry the delete loop has reached led to an
\* rm -r, and no target is "/" or "".
C22_GuardNeverTrips ==
    /\ ~(result.tag = "Err" /\ result.err.kind = "PathDeletionError")
    /\ visited = CountCalls(IsRm)
    /\ \A i \in 1..Len(calls) :
          IsRm(calls[i]) => calls[i].args[8] \notin {<<"/">>, <<>>}

C22_Witness ==
    /\ pc = "done"
    /\ config.snapshot = <<"/">>
    /\ visited = 2
    /\ Len(calls) = 5
    /\ IsRm(calls[5])


\* the name of the instant and suffix at hand read back as a line of the
\* listing: the instant cut to whole seconds, with the name, which ends in
\* an underscore and the suffix after the 20 characters of the timestamp
ReadBack ==
    /\ result.tag = "Ok"
    /\ result.val[1] = Instant(date_time.days, date_time.secs, 0)
    /\ Len(result.val[2]) = 21 + Len(config.snapshot_suffix)
    /\ SubSeq(result.val[2], 21, Len(result.val[2])) = <<"_">> \o config.snapshot_suffix
    /\ \A i \in 1..20 : result.val[2][i] # "_"

====
